---- MODULE Spec2Model ----
(***************************************************************************)
(* Model of the VM translator of projects/08/vm.py: command construction,  *)
(* the rendering of every command to Hack assembly text, the emitter       *)
(* code()/code_with_init()/main(), and the execution of the emitted text   *)
(* on the 16-bit Hack machine (A, D, PC, RAM).                             *)
(*                                                                         *)
(* Strings that the program builds from parts (symbols, numbers) are       *)
(* sequences of one-character strings.  A text is the sequence of pieces   *)
(* obtained by splitting a Python string at every "\n": the empty string   *)
(* is <<Blank>>, and a text that ends in a newline ends in Blank.          *)
(***************************************************************************)
EXTENDS Integers, Sequences, FiniteSets, TLC

VARIABLES
    commands,          \* the command values built so far / handed to code()
    phase,             \* "build", "rejected", "emit", "returned", "raised", "load", "run"
    entry,             \* "code", "code_with_init" or "main"
    stream,            \* the sequence code() iterates over
    i,                 \* code(): enumerate index of the next command
    current_function,  \* code(): latest Function command or None
    output,            \* code(): the StringIO buffer
    result,            \* value returned by code()/code_with_init(), or NoValue
    asmfile,           \* main(): the output file (Absent, or its text)
    rom,               \* Hack machine: the loaded program
    pc, A, D,          \* Hack machine: registers
    ram,               \* Hack machine: data memory (sparse, unmapped words are 0)
    ram0               \* data memory when execution started

vars == <<commands, phase, entry, stream, i, current_function, output,
          result, asmfile, rom, pc, A, D, ram, ram0>>

codeVars == <<commands, phase, entry, stream, i, current_function,
              output, result, asmfile>>
cpuVars == <<rom, pc, A, D, ram, ram0>>

-----------------------------------------------------------------------------
(* Bounds of the model *)

\* longest command sequence built from the full command alphabet
MaxCmds == 2
\* longest command sequence built from eq / call commands only
MaxLong == 12

\* longest command sequence built from function / label / goto commands only
MaxBranch == 4
\* largest argument count of a call that is executed
MaxArgs == 2
\* largest local count of a function that is executed
MaxRunLocals == 2

-----------------------------------------------------------------------------
(* Characters, numbers and names *)

Digits == <<"0", "1", "2", "3", "4", "5", "6", "7", "8", "9">>

IsDigit(c) == \E d \in 1..10 : Digits[d] = c

DigitValue(c) == (CHOOSE d \in 1..10 : Digits[d] = c) - 1

RECURSIVE DecDigits(_)
DecDigits(n) ==
    IF n < 10 THEN <<Digits[n + 1]>>
    ELSE DecDigits(n \div 10) \o <<Digits[(n % 10) + 1]>>

\* '%d' % n
Dec(n) == IF n < 0 THEN <<"-">> \o DecDigits(0 - n) ELSE DecDigits(n)

RECURSIVE ParseInt(_)
\* int(s) for a string of digits
ParseInt(s) ==
    IF Len(s) = 0 THEN 0
    ELSE 10 * ParseInt(SubSeq(s, 1, Len(s) - 1)) + DigitValue(s[Len(s)])

\* the value None
None == [cls |-> "None"]

nSP == <<"S", "P">>
nLCL == <<"L", "C", "L">>
nARG == <<"A", "R", "G">>
nTHIS == <<"T", "H", "I", "S">>
nTHAT == <<"T", "H", "A", "T">>
nR13 == <<"R", "1", "3">>
nR14 == <<"R", "1", "4">>
nR15 == <<"R", "1", "5">>
nNone == <<"N", "o", "n", "e">>
nEQUAL == <<"E", "Q", "U", "A", "L">>
nWRITE == <<"W", "R", "I", "T", "E">>
nCALL == <<"C", "A", "L", "L">>
nSysInit == <<"S", "y", "s", ".", "i", "n", "i", "t">>

-----------------------------------------------------------------------------
(* Lines and texts *)

Blank == [k |-> "blank"]
\* '@' + text
At(text) == [k |-> "@", text |-> text]
\* '(' + text + ')'
LabelDecl(text) == [k |-> "(", text |-> text]
\* a C-instruction line 'dest=comp;jump' ("" where a part is absent)
CI(dest, comp, jump) == [k |-> "C", dest |-> dest, comp |-> comp, jump |-> jump]
\* '// ' + words
Comment(words) == [k |-> "//", words |-> words]

\* a line that is no line of assembly: two pieces run together
Garbled(x, y) == [k |-> "garbled", left |-> x, right |-> y]

\* two pieces of one line put next to each other
JoinLine(x, y) ==
    IF y = Blank THEN x
    ELSE IF x = Blank THEN y
    ELSE Garbled(x, y)

EmptyText == <<Blank>>
NEWLINE == <<Blank, Blank>>

\* string concatenation a + b
Cat(a, b) ==
    SubSeq(a, 1, Len(a) - 1) \o <<JoinLine(a[Len(a)], b[1])>> \o SubSeq(b, 2, Len(b))

RECURSIVE CatAll(_)
CatAll(ts) == IF Len(ts) = 0 THEN EmptyText ELSE Cat(ts[1], CatAll(Tail(ts)))

RECURSIVE JoinNL(_)
\* NEWLINE.join(ts)
JoinNL(ts) ==
    IF Len(ts) = 0 THEN EmptyText
    ELSE IF Len(ts) = 1 THEN ts[1]
    ELSE CatAll(<<ts[1], NEWLINE, JoinNL(Tail(ts))>>)

RECURSIVE Rep(_, _)
\* string repetition t * n
Rep(t, n) ==
    IF n <= 0 THEN EmptyText
    ELSE IF n = 1 THEN t
    ELSE Cat(Rep(t, n \div 2), Rep(t, n - (n \div 2)))

\* t[:-1] for a text whose last character is a newline
DropLastChar(t) ==
    IF t[Len(t)] = Blank /\ Len(t) > 1 THEN SubSeq(t, 1, Len(t) - 1)
    ELSE SubSeq(t, 1, Len(t) - 1) \o << Garbled(t[Len(t)], Blank) >>

\* text.splitlines()
SplitLines(t) == IF t[Len(t)] = Blank THEN SubSeq(t, 1, Len(t) - 1) ELSE t

\* results of operations that may raise SyntaxError
Ok(v) == [ok |-> TRUE, value |-> v]
Raise(msg) == [ok |-> FALSE, error |-> "SyntaxError", msg |-> msg]

-----------------------------------------------------------------------------
(* Program constants *)

MAX_LOCALS == 1024
max_parameter_value == 32767
\* the stack base the bootstrap loads into SP
StackBase == 256

-----------------------------------------------------------------------------
(* Segments *)

SEGMENTS ==
    [constant |-> [name |-> "constant", class |-> "ConstantSegment", symbol |-> <<>>, base |-> 0, size |-> 0],
     static   |-> [name |-> "static", class |-> "StaticSegment", symbol |-> <<>>, base |-> 0, size |-> 0],
     local    |-> [name |-> "local", class |-> "Segment", symbol |-> nLCL, base |-> 0, size |-> 0],
     argument |-> [name |-> "argument", class |-> "Segment", symbol |-> nARG, base |-> 0, size |-> 0],
     this     |-> [name |-> "this", class |-> "Segment", symbol |-> nTHIS, base |-> 0, size |-> 0],
     that     |-> [name |-> "that", class |-> "Segment", symbol |-> nTHAT, base |-> 0, size |-> 0],
     pointer  |-> [name |-> "pointer", class |-> "FixedSegment", symbol |-> <<>>, base |-> 3, size |-> 2],
     temp     |-> [name |-> "temp", class |-> "FixedSegment", symbol |-> <<>>, base |-> 5, size |-> 8]]

SegmentNames == DOMAIN SEGMENTS

PUSH_D == <<At(nSP), CI("AM", "M+1", ""), CI("A", "A-1", ""), CI("M", "D", "")>>

POP_D == <<At(nSP), CI("AM", "M-1", ""), CI("D", "M", "")>>

\* Segment.read_to_d % locals()
Segment_read_to_d(segment, parameter) ==
    <<At(segment), CI("D", "M", ""), At(Dec(parameter)), CI("A", "D+A", ""), CI("D", "M", "")>>

SAVE_TARGET_TO_R15(segment, parameter) ==
    <<At(segment), CI("D", "M", ""), At(Dec(parameter)), CI("D", "D+A", ""), At(nR15), CI("M", "D", "")>>

SAVE_D_TO_TARGET_IN_R15 == <<At(nR15), CI("A", "M", ""), CI("M", "D", "")>>

\* Segment.pop_asm_code popping into D before the target address is computed in D
Segment_pop_asm_code_PopFirst(segment, parameter) ==
    JoinNL(<<POP_D, SAVE_TARGET_TO_R15(segment, parameter), SAVE_D_TO_TARGET_IN_R15>>)

\* Segment.pop_asm_code % locals()
Segment_pop_asm_code(segment, parameter) ==
    JoinNL(<<SAVE_TARGET_TO_R15(segment, parameter), POP_D, SAVE_D_TO_TARGET_IN_R15>>)

ConstantSegment_read_to_d(parameter) == <<At(Dec(parameter)), CI("D", "A", "")>>

\* '%(filename)s.%(parameter)d'
StaticSymbol(filename, parameter) == filename \o <<".">> \o Dec(parameter)

StaticSegment_read_to_d(filename, parameter) ==
    <<At(StaticSymbol(filename, parameter)), CI("D", "M", "")>>

StaticSegment_pop_asm_code(filename, parameter) ==
    JoinNL(<<POP_D, <<At(StaticSymbol(filename, parameter)), CI("M", "D", "")>> >>)

FixedSegment_read_to_d(address) == <<At(Dec(address)), CI("D", "M", "")>>

FixedSegment_pop_asm_code(address) ==
    JoinNL(<<POP_D, <<At(Dec(address)), CI("M", "D", "")>> >>)

\* FixedSegment.check_bounds: TRUE when it raises
check_bounds(seg, operation) == operation.parameter >= seg.size

\* segment.push_asm(push), by the class of the segment
push_asm(push) ==
    LET seg == SEGMENTS[push.segment] IN
    CASE seg.class = "Segment" ->
            Ok(CatAll(<<Segment_read_to_d(seg.symbol, push.parameter), NEWLINE, PUSH_D>>))
      [] seg.class = "ConstantSegment" ->
            Ok(CatAll(<<ConstantSegment_read_to_d(push.parameter), NEWLINE, PUSH_D>>))
      [] seg.class = "StaticSegment" ->
            Ok(CatAll(<<StaticSegment_read_to_d(push.filename, push.parameter), NEWLINE, PUSH_D>>))
      [] seg.class = "FixedSegment" ->
            IF check_bounds(seg, push) THEN Raise("Out of segment's bounds")
            ELSE Ok(CatAll(<<FixedSegment_read_to_d(seg.base + push.parameter), NEWLINE, PUSH_D>>))

\* segment.pop_asm(pop), by the class of the segment
pop_asm(pop) ==
    LET seg == SEGMENTS[pop.segment] IN
    CASE seg.class = "Segment" -> Ok(Segment_pop_asm_code(seg.symbol, pop.parameter))
      [] seg.class = "ConstantSegment" -> Raise("Cannot pop constant")
      [] seg.class = "StaticSegment" -> Ok(StaticSegment_pop_asm_code(pop.filename, pop.parameter))
      [] seg.class = "FixedSegment" ->
            IF check_bounds(seg, pop) THEN Raise("Out of segment's bounds")
            ELSE Ok(FixedSegment_pop_asm_code(seg.base + pop.parameter))

-----------------------------------------------------------------------------
(* Command values and their constructors *)

\* StackOperation.__init__ without its range check
StackOperation_Unchecked(cls, segment, parameter, filename) ==
    Ok([cls |-> cls, segment |-> segment, parameter |-> parameter, filename |-> filename])

\* StackOperation.__init__, for cls = "Push" or "Pop"
StackOperation(cls, segment, parameter, filename) ==
    IF ~(0 <= parameter /\ parameter <= max_parameter_value)
    THEN Raise("Parameter out of range")
    ELSE Ok([cls |-> cls, segment |-> segment, parameter |-> parameter, filename |-> filename])

ArithmeticNames == {"Add", "Sub", "Neg", "Eq", "Gt", "Lt", "And", "Or", "Not"}
EqualityNames == {"Eq", "Gt", "Lt"}
BranchingNames == {"Label", "Goto", "IfGoto"}

STACK_OPERATIONS == [push |-> "Push", pop |-> "Pop"]

ARITHMETIC_COMMANDS ==
    [add |-> "Add", sub |-> "Sub", neg |-> "Neg", eq |-> "Eq", gt |-> "Gt", lt |-> "Lt",
     and |-> "And", or |-> "Or", not |-> "Not"]

BRANCHING_COMMANDS ==
    ("label" :> "Label") @@ ("goto" :> "Goto") @@ ("if-goto" :> "IfGoto")

\* ArithmeticCommand subclasses have no __init__
ArithmeticCommand(cls) == Ok([cls |-> cls])

\* BranchingCommand.__init__
BranchingCommand(cls, name) == Ok([cls |-> cls, name |-> name])

\* Function.__init__
Function(name, num_locals) == Ok([cls |-> "Function", name |-> name, num_locals |-> num_locals])

\* Call.__init__
Call(name, num_arguments) == Ok([cls |-> "Call", name |-> name, num_arguments |-> num_arguments])

Return == Ok([cls |-> "Return"])

Initialize == Ok([cls |-> "Initialize"])

-----------------------------------------------------------------------------
(* Arithmetic and logical commands *)

BINARY_OP_HEADER == <<At(nSP), CI("AM", "M-1", ""), CI("D", "M", ""), CI("A", "A-1", "")>>

ADD_CODE == BINARY_OP_HEADER \o <<CI("M", "D+M", "")>>
SUB_CODE == BINARY_OP_HEADER \o <<CI("M", "M-D", "")>>
\* NEG_CODE opening like a binary operation (AM=M-1)
NEG_CODE_Popping == <<At(nSP), CI("AM", "M-1", ""), CI("M", "-M", ""), Blank>>
\* the literal ends in a newline
NEG_CODE == <<At(nSP), CI("A", "M-1", ""), CI("M", "-M", ""), Blank>>
AND_CODE == BINARY_OP_HEADER \o <<CI("M", "M&D", "")>>
OR_CODE == BINARY_OP_HEADER \o <<CI("M", "M|D", "")>>
\* the literal ends in a newline
NOT_CODE == <<At(nSP), CI("A", "M-1", ""), CI("M", "!M", ""), Blank>>

\* Eq.JUMP, Gt.JUMP, Lt.JUMP
JUMP(cls) ==
    CASE cls = "Eq" -> "JEQ"
      [] cls = "Gt" -> "JLT"
      [] cls = "Lt" -> "JGT"

\* EQUALITY_CHECK % locals()
EQUALITY_CHECK(jump, unique_identifier) ==
    Cat(BINARY_OP_HEADER,
        <<Blank,
          CI("D", "D-M", ""),
          At(nEQUAL \o Dec(unique_identifier)),
          CI("", "D", jump),
          CI("D", "0", ""),
          At(nWRITE \o Dec(unique_identifier)),
          CI("", "0", "JMP"),
          LabelDecl(nEQUAL \o Dec(unique_identifier)),
          CI("D", "-1", ""),
          LabelDecl(nWRITE \o Dec(unique_identifier)),
          At(nSP),
          CI("A", "M-1", ""),
          CI("M", "D", "")>>)

\* Equality.asm_code with one identifier for every command
Equality_asm_code_Fixed(c, n, f) == EQUALITY_CHECK(JUMP(c.cls), 0)

\* Equality.asm_code
Equality_asm_code(c, n, f) == EQUALITY_CHECK(JUMP(c.cls), n)

\* asm_code of the ArithmeticCommand subclasses
Arithmetic_asm_code(c, n, f) ==
    CASE c.cls = "Add" -> ADD_CODE
      [] c.cls = "Sub" -> SUB_CODE
      [] c.cls = "Neg" -> NEG_CODE
      [] c.cls = "And" -> AND_CODE
      [] c.cls = "Or" -> OR_CODE
      [] c.cls = "Not" -> NOT_CODE
      [] c.cls \in EqualityNames -> Equality_asm_code(c, n, f)

-----------------------------------------------------------------------------
(* Branching commands *)

\* BranchingCommand.name_to_label without the function's name
name_to_label_Unqualified(function, name) == nNone \o <<"$">> \o name

\* BranchingCommand.name_to_label: '%s$%s' % (function, name); '%s' of None is 'None'
name_to_label(function, name) ==
    (IF function # None THEN function.name ELSE nNone) \o <<"$">> \o name

\* Goto.GOTO % target
GOTO(target) == <<At(target), CI("", "0", "JMP")>>

Label_asm_code(c, n, function) == <<LabelDecl(name_to_label(function, c.name))>>

Goto_asm_code(c, n, function) == GOTO(name_to_label(function, c.name))

\* IfGoto.asm_code branching on positive values only
IfGoto_asm_code_Positive(c, n, function) ==
    Cat(POP_D, <<Blank, At(name_to_label(function, c.name)), CI("", "D", "JGT")>>)

IfGoto_asm_code(c, n, function) ==
    Cat(POP_D, <<Blank, At(name_to_label(function, c.name)), CI("", "D", "JNE")>>)

-----------------------------------------------------------------------------
(* Function, Call, Return, Initialize *)

\* Function.name_to_label
Function_name_to_label(name) == <<"F">> \o name

FUNCTION_LABEL(label) == <<LabelDecl(label), Blank>>
ROOM_FOR_LOCALS_HEADER == <<At(nSP), CI("A", "M", ""), Blank>>
\* ZERO_LOCAL that steps over the word without clearing it
ZERO_LOCAL_Skipping == <<CI("A", "A+1", ""), Blank>>
ZERO_LOCAL == <<CI("M", "0", ""), CI("A", "A+1", ""), Blank>>
ROOM_FOR_LOCALS_FOOTER == <<CI("D", "A", ""), At(nSP), CI("M", "D", "")>>

\* Function.asm_code
Function_asm_code(c, n, f) ==
    CatAll(<<FUNCTION_LABEL(Function_name_to_label(c.name)),
             ROOM_FOR_LOCALS_HEADER,
             Rep(ZERO_LOCAL, c.num_locals),
             ROOM_FOR_LOCALS_FOOTER>>)

SAVE_CONST(symbol) == CatAll(<<<<At(symbol), CI("D", "A", ""), Blank>>, PUSH_D, NEWLINE>>)

SAVED_VARS == <<nLCL, nARG, nTHIS, nTHAT>>

SAVE_VAR(var) == <<At(var), CI("D", "M", ""), Blank>>

SAVE_VARS == JoinNL([v \in 1..Len(SAVED_VARS) |-> Cat(SAVE_VAR(SAVED_VARS[v]), PUSH_D)])

\* SET_ARG that forgets the return-address slot
SET_ARG_FourSaved(stack_offset) ==
    <<Blank, At(Dec(stack_offset - 1)), CI("D", "A", ""), At(nSP), CI("D", "M-D", ""),
      At(nARG), CI("M", "D", ""), Blank>>

SET_ARG(stack_offset) ==
    <<Blank, At(Dec(stack_offset)), CI("D", "A", ""), At(nSP), CI("D", "M-D", ""),
      At(nARG), CI("M", "D", ""), Blank>>

SET_LCL == <<At(nSP), CI("D", "M", ""), At(nLCL), CI("M", "D", ""), Blank>>

CALL_LABEL(symbol) == <<Blank, LabelDecl(symbol)>>

\* Call.asm_code
Call_asm_code(c, n, f) ==
    LET stack_offset == c.num_arguments + Len(SAVED_VARS) + 1
        symbol == nCALL \o Dec(n)
    IN  CatAll(<<SAVE_CONST(symbol),
                 SAVE_VARS,
                 SET_ARG(stack_offset),
                 SET_LCL,
                 GOTO(Function_name_to_label(c.name)),
                 CALL_LABEL(symbol)>>)

STORE_RETURN_VALUE == <<At(nSP), CI("AM", "M-1", ""), CI("D", "M", ""), At(nR15), CI("M", "D", ""), Blank>>
STORE_ARG == <<At(nARG), CI("D", "M", ""), At(nR14), CI("M", "D", ""), Blank>>
SET_SP_TO_LCL == <<At(nLCL), CI("D", "M", ""), At(nSP), CI("M", "D", ""), Blank>>
RESTORE_VAR(var) == <<At(var), CI("M", "D", "")>>

\* Call.SAVED_VARS[::-1]
Reversed(q) == [k \in 1..Len(q) |-> q[Len(q) + 1 - k]]

\* RESTORE_VARS popping in the order the variables were saved
RESTORE_VARS_SaveOrder ==
    JoinNL([v \in 1..Len(SAVED_VARS) |->
               CatAll(<<POP_D, NEWLINE, RESTORE_VAR(SAVED_VARS[v])>>)])

RESTORE_VARS ==
    JoinNL([v \in 1..Len(SAVED_VARS) |->
               CatAll(<<POP_D, NEWLINE, RESTORE_VAR(Reversed(SAVED_VARS)[v])>>)])

STORE_RETURN_ADDRESS == Cat(POP_D, <<Blank, At(nR13), CI("M", "D", ""), Blank>>)
\* RESTORE_SP setting SP to ARG itself
RESTORE_SP_AtArg == <<At(nR14), CI("D", "M", ""), At(nSP), CI("M", "D", ""), Blank>>
RESTORE_SP == <<At(nR14), CI("D", "M", ""), At(nSP), CI("M", "D+1", ""), Blank>>
WRITE_RETURN_VALUE == <<At(nR15), CI("D", "M", ""), At(nSP), CI("A", "M-1", ""), CI("M", "D", ""), Blank>>
Return_JUMP == <<At(nR13), CI("A", "M", ""), CI("", "0", "JMP")>>

\* Return.asm_code
Return_asm_code(c, n, function) ==
    CatAll(<<STORE_RETURN_VALUE,
             STORE_ARG,
             SET_SP_TO_LCL,
             RESTORE_VARS, NEWLINE,
             STORE_RETURN_ADDRESS,
             RESTORE_SP,
             WRITE_RETURN_VALUE,
             Return_JUMP>>)

\* str(command): the words of the command's textual form
str(c) ==
    CASE c.cls \in {"Push", "Pop"} ->
            [op |-> IF c.cls = "Push" THEN "push" ELSE "pop",
             seg |-> SEGMENTS[c.segment].name, name |-> <<>>, num |-> Dec(c.parameter)]
      [] c.cls \in ArithmeticNames ->
            [op |-> CHOOSE w \in DOMAIN ARITHMETIC_COMMANDS : ARITHMETIC_COMMANDS[w] = c.cls,
             seg |-> "", name |-> <<>>, num |-> <<>>]
      [] c.cls \in BranchingNames ->
            [op |-> CHOOSE w \in DOMAIN BRANCHING_COMMANDS : BRANCHING_COMMANDS[w] = c.cls,
             seg |-> "", name |-> c.name, num |-> <<>>]
      [] c.cls = "Function" ->
            [op |-> "function", seg |-> "", name |-> c.name, num |-> Dec(c.num_locals)]
      [] c.cls = "Call" ->
            [op |-> "call", seg |-> "", name |-> c.name, num |-> Dec(c.num_arguments)]
      [] c.cls = "Return" -> [op |-> "return", seg |-> "", name |-> <<>>, num |-> <<>>]
      [] c.cls = "Initialize" -> [op |-> "initialize VM", seg |-> "", name |-> <<>>, num |-> <<>>]

\* '// %s%s%s%s' % (str(self), NEWLINE, code, NEWLINE)
AsmFormat(c, body) == CatAll(<<<<Comment(str(c))>>, NEWLINE, body, NEWLINE>>)

\* Initialize.asm_code
Initialize_asm_code(c, n, function) ==
    Cat(<<At(Dec(StackBase)), CI("D", "A", ""), At(nSP), CI("M", "D", ""), Blank>>,
        DropLastChar(AsmFormat(Call(nSysInit, 0).value,
                               Call_asm_code(Call(nSysInit, 0).value, n, function))))

\* command.asm_code(i, f), which may raise
asm_code(c, n, f) ==
    CASE c.cls = "Push" -> push_asm(c)
      [] c.cls = "Pop" -> pop_asm(c)
      [] c.cls \in ArithmeticNames -> Ok(Arithmetic_asm_code(c, n, f))
      [] c.cls = "Label" -> Ok(Label_asm_code(c, n, f))
      [] c.cls = "Goto" -> Ok(Goto_asm_code(c, n, f))
      [] c.cls = "IfGoto" -> Ok(IfGoto_asm_code(c, n, f))
      [] c.cls = "Function" -> Ok(Function_asm_code(c, n, f))
      [] c.cls = "Call" -> Ok(Call_asm_code(c, n, f))
      [] c.cls = "Return" -> Ok(Return_asm_code(c, n, f))
      [] c.cls = "Initialize" -> Ok(Initialize_asm_code(c, n, f))

\* Command.asm(i, f)
asm(c, n, f) ==
    LET body == asm_code(c, n, f) IN
    IF body.ok THEN Ok(AsmFormat(c, body.value)) ELSE body

-----------------------------------------------------------------------------
(* The parser: one line of VM text, already split into words *)

Letters ==
    {"a", "b", "c", "d", "e", "f", "g", "h", "i", "j", "k", "l", "m", "n", "o", "p", "q",
     "r", "s", "t", "u", "v", "w", "x", "y", "z", "A", "B", "C", "D", "E", "F", "G", "H",
     "I", "J", "K", "L", "M", "N", "O", "P", "Q", "R", "S", "T", "U", "V", "W", "X", "Y", "Z"}

\* SYMBOL_RE.match(name)
SYMBOL_RE(name) ==
    /\ Len(name) >= 1
    /\ name[1] \in Letters \cup {"_", ".", "$", ":"}
    /\ \A k \in 2..Len(name) : name[k] \in Letters \cup {"_", ".", "$", ":"} \/ IsDigit(name[k])

\* parse_number(s): s.isdigit(), then int(s)
parse_number(s) ==
    IF ~(Len(s) >= 1 /\ \A k \in 1..Len(s) : IsDigit(s[k])) THEN Raise("Not a number")
    ELSE Ok(ParseInt(s))

\* check_parameters(line, expected_number, name): TRUE when it raises
check_parameters(line, expected_number) == Len(line.args) # expected_number

\* check_symbol_name(name): TRUE when it raises
check_symbol_name(name) == ~SYMBOL_RE(name)

\* the body of parser()'s loop for one non-empty line [op, args]: the command it
\* yields, or the SyntaxError it raises
parser(line, filename) ==
    CASE line.op \in DOMAIN STACK_OPERATIONS ->
            IF check_parameters(line, 2) THEN Raise("Stack command should have 2 parameters")
            ELSE IF line.args[1] \notin SegmentNames THEN Raise("Not a recognized segment")
            ELSE IF ~parse_number(line.args[2]).ok THEN parse_number(line.args[2])
            ELSE StackOperation(STACK_OPERATIONS[line.op], line.args[1],
                                parse_number(line.args[2]).value, filename)
      [] line.op \in DOMAIN ARITHMETIC_COMMANDS ->
            IF check_parameters(line, 0) THEN Raise("Arithmetic command should have 0 parameters")
            ELSE ArithmeticCommand(ARITHMETIC_COMMANDS[line.op])
      [] line.op \in DOMAIN BRANCHING_COMMANDS ->
            IF check_parameters(line, 1) THEN Raise("Branching command should have 1 parameters")
            ELSE IF check_symbol_name(line.args[1]) THEN Raise("Invalid symbol name")
            ELSE BranchingCommand(BRANCHING_COMMANDS[line.op], line.args[1])
      [] line.op = "function" ->
            IF check_parameters(line, 2) THEN Raise("Function command should have 2 parameters")
            ELSE IF check_symbol_name(line.args[1]) THEN Raise("Invalid symbol name")
            ELSE IF ~parse_number(line.args[2]).ok THEN parse_number(line.args[2])
            ELSE IF ~(0 <= parse_number(line.args[2]).value
                      /\ parse_number(line.args[2]).value <= MAX_LOCALS)
                 THEN Raise("Function cannot have that many locals")
            ELSE Function(line.args[1], parse_number(line.args[2]).value)
      [] line.op = "call" ->
            IF check_parameters(line, 2) THEN Raise("Call command should have 2 parameters")
            ELSE IF check_symbol_name(line.args[1]) THEN Raise("Invalid symbol name")
            ELSE IF ~parse_number(line.args[2]).ok THEN parse_number(line.args[2])
            ELSE Call(line.args[1], parse_number(line.args[2]).value)
      [] line.op = "return" ->
            IF check_parameters(line, 0) THEN Raise("Return command should have 0 parameters")
            ELSE Return
      [] OTHER -> Raise("Not a recognized command")

-----------------------------------------------------------------------------
(* The emitter *)

\* the loop body of an emitter that skips a command whose rendering raises
code_body_Skipping(command, n, cur, out) ==
    LET f == IF command.cls = "Function" THEN command ELSE cur
        r == asm(command, n, f)
    IN  [raised |-> FALSE, current_function |-> f,
         output |-> IF r.ok THEN Append(out, r.value) ELSE out]

\* the loop body of an emitter that takes a return for the end of the function
code_body_Forgetting(command, n, cur, out) ==
    LET f == IF command.cls = "Function" THEN command
             ELSE IF command.cls = "Return" THEN None ELSE cur
        r == asm(command, n, f)
    IN  IF r.ok
        THEN [raised |-> FALSE, current_function |-> f, output |-> Append(out, r.value)]
        ELSE [raised |-> TRUE, current_function |-> f, output |-> out]

\* the body of code()'s loop for the command at enumerate index n: the new
\* current_function, and either the buffer after output.write or the exception
code_body(command, n, cur, out) ==
    LET f == IF command.cls = "Function" THEN command ELSE cur
        r == asm(command, n, f)
    IN  IF r.ok
        THEN [raised |-> FALSE, current_function |-> f, output |-> Append(out, r.value)]
        ELSE [raised |-> TRUE, current_function |-> f, output |-> out]

\* StringIO.getvalue(): everything written, in order
getvalue(out) == CatAll(out)

\* chain([Initialize()], commands)
chain_init(cmds) == <<Initialize.value>> \o cmds

\* the sequence code() walks for each entry point
StreamOf(e, cmds) == IF e = "code" THEN cmds ELSE chain_init(cmds)

RECURSIVE code_loop(_, _, _, _)
\* code()'s loop from enumerate index n on: the buffer at the end, or the exception
code_loop(cmds, n, cur, out) ==
    IF n >= Len(cmds) THEN Ok(out)
    ELSE LET b == code_body(cmds[n + 1], n, cur, out) IN
         IF b.raised THEN Raise("SyntaxError") ELSE code_loop(cmds, n + 1, b.current_function, b.output)

\* return output.getvalue(), unless the loop raised
code_return(out) == IF out.ok THEN Ok(getvalue(out.value)) ELSE out

\* code(commands)
code(cmds) == code_return(code_loop(cmds, 0, None, <<>>))

\* code_with_init(commands)
code_with_init(cmds) == code(chain_init(cmds))

-----------------------------------------------------------------------------
(* The assembler's reading of the emitted text (projects/06/assembler.py),  *)
(* and the symbol resolution of the Hack platform                           *)

\* one line of assembly as assembler.parser reads it: comments and empty lines
\* yield nothing, '@' lines a literal, '(..)' lines a label, the rest a C-instruction
ParseLine(line) ==
    CASE line.k \in {"blank", "//"} -> [k |-> "nothing"]
      [] line.k = "@" ->
            IF Len(line.text) >= 1 /\ IsDigit(line.text[1])
            THEN IF \A c \in 1..Len(line.text) : IsDigit(line.text[c])
                 THEN IF ParseInt(line.text) < 65536
                      THEN [k |-> "NumericLiteral", value |-> ParseInt(line.text)]
                      ELSE [k |-> "SyntaxError"]
                 ELSE [k |-> "SyntaxError"]
            ELSE IF SYMBOL_RE(line.text) THEN [k |-> "SymbolLiteral", value |-> line.text]
                 ELSE [k |-> "SyntaxError"]
      [] line.k = "(" ->
            IF SYMBOL_RE(line.text) THEN [k |-> "Label", value |-> line.text]
            ELSE [k |-> "SyntaxError"]
      [] line.k = "C" -> [k |-> "CInstruction", dest |-> line.dest, comp |-> line.comp, jump |-> line.jump]
      [] OTHER -> [k |-> "SyntaxError"]

\* Command.is_instruction
is_instruction(cmd) == cmd.k \in {"NumericLiteral", "SymbolLiteral", "CInstruction"}

\* the predefined symbols of the Hack platform
PredefinedSymbols ==
    {nSP, nLCL, nARG, nTHIS, nTHAT} \cup {<<"R">> \o Dec(n) : n \in 0..15}

PredefinedAddress(sym) ==
    CASE sym = nSP -> 0
      [] sym = nLCL -> 1
      [] sym = nARG -> 2
      [] sym = nTHIS -> 3
      [] sym = nTHAT -> 4
      [] OTHER -> ParseInt(Tail(sym))

\* the address a symbol stands for in the parsed program ps: a predefined
\* register, the instruction that follows the label's declaration, or a
\* variable allocated from 16 upwards in order of first use
Resolve(ps, sym) ==
    LET decls == {q \in 1..Len(ps) : ps[q].k = "Label" /\ ps[q].value = sym}
        labels == {ps[q].value : q \in {r \in 1..Len(ps) : ps[r].k = "Label"}}
        IsVar(q) == /\ ps[q].k = "SymbolLiteral"
                    /\ ps[q].value \notin PredefinedSymbols
                    /\ ps[q].value \notin labels
        First(q) == IsVar(q) /\ \A r \in 1..(q - 1) : ps[r].k = "SymbolLiteral" => ps[r].value # ps[q].value
        use == CHOOSE q \in 1..Len(ps) : First(q) /\ ps[q].value = sym
    IN  IF sym \in PredefinedSymbols THEN PredefinedAddress(sym)
        ELSE IF decls # {}
        THEN LET d == CHOOSE q \in decls : \A r \in decls : q <= r
             IN  Cardinality({r \in 1..(d - 1) : is_instruction(ps[r])})
        ELSE 16 + Cardinality({r \in 1..(use - 1) : First(r)})

RECURSIVE SelectInstructions(_, _, _)
\* the instructions among ps[lo..hi], in order, with their symbols resolved
SelectInstructions(ps, lo, hi) ==
    IF lo > hi THEN <<>>
    ELSE IF lo = hi
    THEN IF ~is_instruction(ps[lo]) THEN <<>>
         ELSE << IF ps[lo].k = "SymbolLiteral"
                 THEN [k |-> "A", value |-> Resolve(ps, ps[lo].value)]
                 ELSE IF ps[lo].k = "NumericLiteral" THEN [k |-> "A", value |-> ps[lo].value]
                 ELSE [k |-> "C", dest |-> ps[lo].dest, comp |-> ps[lo].comp, jump |-> ps[lo].jump] >>
    ELSE SelectInstructions(ps, lo, (lo + hi) \div 2)
         \o SelectInstructions(ps, ((lo + hi) \div 2) + 1, hi)

\* the program memory holding the assembled text; empty when a line is no assembly
Assemble(text) ==
    LET lines == SplitLines(text)
        ps == [q \in 1..Len(lines) |-> ParseLine(lines[q])]
    IN  IF \E q \in 1..Len(ps) : ps[q].k = "SyntaxError" THEN <<>>
        ELSE SelectInstructions(ps, 1, Len(ps))

\* the address of a label of the emitted text
LabelAddress(text, sym) ==
    LET lines == SplitLines(text) IN Resolve([q \in 1..Len(lines) |-> ParseLine(lines[q])], sym)

-----------------------------------------------------------------------------
(* The Hack machine: 16-bit words, two's complement *)

Word == 65536
HalfWord == Word \div 2

Wrap(x) == x % Word
Signed(x) == IF x >= HalfWord THEN x - Word ELSE x

RECURSIVE BitAnd(_, _, _)
BitAnd(x, y, bits) ==
    IF bits = 0 THEN 0
    ELSE (IF x % 2 = 1 /\ y % 2 = 1 THEN 1 ELSE 0) + 2 * BitAnd(x \div 2, y \div 2, bits - 1)

And16(x, y) == BitAnd(x, y, 16)
Or16(x, y) == x + y - And16(x, y)
Not16(x) == Word - 1 - x

Read(r, a) == IF a \in DOMAIN r THEN r[a] ELSE 0
Write(r, a, v) == [x \in (DOMAIN r) \cup {a} |-> IF x = a THEN v ELSE r[x]]

\* the ALU output for a comp mnemonic, with a, d the registers and m = RAM[A]
Comp(comp, a, d, m) ==
    CASE comp = "0" -> 0
      [] comp = "1" -> 1
      [] comp = "-1" -> Word - 1
      [] comp = "D" -> d
      [] comp = "A" -> a
      [] comp = "M" -> m
      [] comp = "!D" -> Not16(d)
      [] comp = "!A" -> Not16(a)
      [] comp = "!M" -> Not16(m)
      [] comp = "-D" -> Wrap(Word - d)
      [] comp = "-A" -> Wrap(Word - a)
      [] comp = "-M" -> Wrap(Word - m)
      [] comp = "D+1" -> Wrap(d + 1)
      [] comp = "A+1" -> Wrap(a + 1)
      [] comp = "M+1" -> Wrap(m + 1)
      [] comp = "D-1" -> Wrap(d + Word - 1)
      [] comp = "A-1" -> Wrap(a + Word - 1)
      [] comp = "M-1" -> Wrap(m + Word - 1)
      [] comp = "D+A" -> Wrap(d + a)
      [] comp = "D+M" -> Wrap(d + m)
      [] comp = "D-A" -> Wrap(d + Word - a)
      [] comp = "D-M" -> Wrap(d + Word - m)
      [] comp = "A-D" -> Wrap(a + Word - d)
      [] comp = "M-D" -> Wrap(m + Word - d)
      [] comp \in {"D&A", "A&D"} -> And16(d, a)
      [] comp \in {"D&M", "M&D"} -> And16(d, m)
      [] comp \in {"D|A", "A|D"} -> Or16(d, a)
      [] comp \in {"D|M", "M|D"} -> Or16(d, m)

\* whether a jump mnemonic is taken on ALU output v
Jumps(jump, v) ==
    CASE jump = "" -> FALSE
      [] jump = "JGT" -> Signed(v) > 0
      [] jump = "JEQ" -> v = 0
      [] jump = "JGE" -> Signed(v) >= 0
      [] jump = "JLT" -> Signed(v) < 0
      [] jump = "JNE" -> v # 0
      [] jump = "JLE" -> Signed(v) <= 0
      [] jump = "JMP" -> TRUE

HasDest(dest, r) ==
    CASE r = "A" -> dest \in {"A", "AM", "AD", "AMD", "MA", "DA", "MDA"}
      [] r = "M" -> dest \in {"M", "AM", "MD", "AMD", "MA", "MDA"}
      [] r = "D" -> dest \in {"D", "AD", "MD", "AMD", "DA", "MDA"}

Running == phase = "run" /\ pc < Len(rom)

\* @value
AInstruction ==
    /\ Running
    /\ rom[pc + 1].k = "A"
    /\ A' = rom[pc + 1].value
    /\ pc' = pc + 1
    /\ UNCHANGED <<D, ram, ram0, rom>>
    /\ UNCHANGED codeVars

\* dest=comp;jump
CInstruction ==
    /\ Running
    /\ rom[pc + 1].k = "C"
    /\ LET ins == rom[pc + 1]
           addr == A % HalfWord
           v == Comp(ins.comp, A, D, Read(ram, addr))
       IN  /\ A' = IF HasDest(ins.dest, "A") THEN v ELSE A
           /\ D' = IF HasDest(ins.dest, "D") THEN v ELSE D
           /\ ram' = IF HasDest(ins.dest, "M") THEN Write(ram, addr, v) ELSE ram
           /\ pc' = IF Jumps(ins.jump, v) THEN addr ELSE pc + 1
    /\ UNCHANGED <<ram0, rom>>
    /\ UNCHANGED codeVars

-----------------------------------------------------------------------------
(* Translations: commands are built, then code(), code_with_init() or main() *)
(* renders them                                                             *)

nf == <<"f">>
ng == <<"g">>
ne == <<"e">>
nL == <<"L">>
nfile == <<"f", "i", "l", "e">>
na == <<"a">>
nab == <<"a", "$", "b">>
nbL == <<"b", "$", "L">>

\* operands offered to the constructors and to the parser, legal and illegal
BuildSegments == {"constant", "local", "pointer", "temp"}
BuildParameters == {1, 8, max_parameter_value + 1}
BuildLocals == {1, MAX_LOCALS + 1}

\* constructor calls of a caller of code() / code_with_init()
DirectValidation ==
    {StackOperation(cls, seg, p, nfile) :
        cls \in {"Push", "Pop"}, seg \in BuildSegments, p \in BuildParameters \cup {0 - 1}}
    \cup {ArithmeticCommand("Add"), Return}

DirectLocals == {Function(nf, k) : k \in BuildLocals \cup {0 - 1}} \cup {Return}

DirectLong == {ArithmeticCommand("Eq"), Call(nf, 0)}

DirectBranching ==
    {Function(nf, 0), Function(ng, 0)}
    \cup {BranchingCommand(cls, nL) : cls \in BranchingNames}

\* a function, and commands that are no Function, around a label
DirectTracking ==
    {Function(nf, 0), Call(nf, 0), Return, BranchingCommand("Label", nL)}

\* names with '$' inside, and a function named like the rendering of None
DirectQualify ==
    {Function(na, 0), Function(nab, 0), Function(nNone, 0),
     BranchingCommand("Label", nL), BranchingCommand("Label", nbL)}

\* the unary commands next to a binary one and a label
DirectFormat ==
    {ArithmeticCommand("Neg"), ArithmeticCommand("Not"), ArithmeticCommand("Add"),
     BranchingCommand("Label", nL)}

\* lines of VM text read by main()
LinesValidation ==
    {[op |-> o, args |-> <<seg, Dec(p)>>] :
        o \in {"push", "pop"}, seg \in BuildSegments, p \in BuildParameters}
    \cup {[op |-> "add", args |-> <<>>], [op |-> "return", args |-> <<>>],
          [op |-> "push", args |-> <<"constant", <<"x">> >>],
          [op |-> "push", args |-> <<"me", <<"1">> >>],
          [op |-> "label", args |-> <<>>],
          [op |-> "mwaaaah", args |-> <<>>]}

LinesLocals ==
    {[op |-> "function", args |-> <<nf, Dec(k)>>] : k \in BuildLocals}
    \cup {[op |-> "function", args |-> <<nf, <<"-", "1">> >>], [op |-> "return", args |-> <<>>]}

LinesLong == {[op |-> "eq", args |-> <<>>], [op |-> "call", args |-> <<nf, Dec(0)>>]}

LinesBranching ==
    {[op |-> "function", args |-> <<nf, Dec(0)>>], [op |-> "function", args |-> <<ng, Dec(0)>>]}
    \cup {[op |-> o, args |-> <<nL>>] : o \in DOMAIN BRANCHING_COMMANDS}

LinesTracking ==
    {[op |-> "function", args |-> <<nf, Dec(0)>>], [op |-> "call", args |-> <<nf, Dec(0)>>],
     [op |-> "return", args |-> <<>>], [op |-> "label", args |-> <<nL>>]}

LinesQualify ==
    {[op |-> "function", args |-> <<n, Dec(0)>>] : n \in {na, nab, nNone}}
    \cup {[op |-> "label", args |-> <<n>>] : n \in {nL, nbL}}

LinesFormat ==
    {[op |-> o, args |-> <<>>] : o \in {"neg", "not", "add"}}
    \cup {[op |-> "label", args |-> <<nL>>]}

\* a long command sequence repeats its first LongPeriod commands
LongPeriod == Cardinality(DirectLong)

\* the bounded families of command sequences: what may be built, how long, and
\* after how many commands a sequence repeats itself (long sequences repeat a
\* pattern of LongPeriod commands)
DirectFamilies ==
    {[results |-> DirectValidation, max |-> MaxCmds, period |-> MaxCmds],
     [results |-> DirectLocals, max |-> MaxCmds, period |-> MaxCmds],
     [results |-> DirectLong, max |-> MaxLong, period |-> LongPeriod],
     [results |-> DirectBranching, max |-> MaxBranch, period |-> MaxBranch],
     [results |-> DirectTracking, max |-> MaxBranch, period |-> MaxBranch],
     [results |-> DirectQualify, max |-> MaxBranch, period |-> MaxBranch],
     [results |-> DirectFormat, max |-> MaxCmds, period |-> MaxCmds]}

ParserFamilies ==
    {[results |-> {parser(l, nfile) : l \in LinesValidation}, max |-> MaxCmds, period |-> MaxCmds],
     [results |-> {parser(l, nfile) : l \in LinesLocals}, max |-> MaxCmds, period |-> MaxCmds],
     [results |-> {parser(l, nfile) : l \in LinesLong}, max |-> MaxLong, period |-> LongPeriod],
     [results |-> {parser(l, nfile) : l \in LinesBranching}, max |-> MaxBranch, period |-> MaxBranch],
     [results |-> {parser(l, nfile) : l \in LinesTracking}, max |-> MaxBranch, period |-> MaxBranch],
     [results |-> {parser(l, nfile) : l \in LinesQualify}, max |-> MaxBranch, period |-> MaxBranch],
     [results |-> {parser(l, nfile) : l \in LinesFormat}, max |-> MaxCmds, period |-> MaxCmds]}

NoResult == [returned |-> FALSE, text |-> EmptyText]
NoFile == [exists |-> FALSE, text |-> EmptyText]

InitCode ==
    /\ entry \in {"code", "code_with_init", "main"}
    /\ phase = "build"
    /\ commands = <<>>
    /\ stream = <<>>
    /\ i = 0
    /\ current_function = None
    /\ output = <<>>
    /\ result = NoResult
    /\ asmfile = NoFile
    /\ rom = <<>>
    /\ pc = 0
    /\ A = 0
    /\ D = 0
    /\ ram = <<>>
    /\ ram0 = <<>>

\* one more command value is constructed, or the construction raises
Build(families) ==
    /\ phase = "build"
    /\ \E F \in families :
          /\ Len(commands) < F.max
          /\ \A k \in 1..Len(commands) : Ok(commands[k]) \in F.results
          /\ \E r \in F.results :
                IF r.ok
                THEN /\ Len(commands) >= F.period => r.value = commands[Len(commands) + 1 - F.period]
                     /\ commands' = Append(commands, r.value)
                     /\ phase' = phase
                ELSE commands' = commands /\ phase' = "rejected"
    /\ UNCHANGED <<entry, stream, i, current_function, output, result, asmfile>>
    /\ UNCHANGED cpuVars

\* the caller of code() / code_with_init() constructs a command
Construct == entry # "main" /\ Build(DirectFamilies)

\* main(): commands += parser(vmfile.read(), filename), one line at a time
MainParse == entry = "main" /\ Build(ParserFamilies)

\* code() / code_with_init() is called; main() first opens the output file 'wb'
Start ==
    /\ phase = "build"
    /\ phase' = "emit"
    /\ stream' = StreamOf(entry, commands)
    /\ i' = 0
    /\ current_function' = None
    /\ output' = <<>>
    /\ asmfile' = IF entry = "main" THEN [exists |-> TRUE, text |-> EmptyText] ELSE asmfile
    /\ UNCHANGED <<commands, entry, result>>
    /\ UNCHANGED cpuVars

\* one iteration of code()'s loop
CodeStep ==
    /\ phase = "emit"
    /\ i < Len(stream)
    /\ LET b == code_body(stream[i + 1], i, current_function, output) IN
          /\ current_function' = b.current_function
          /\ output' = b.output
          /\ IF b.raised THEN phase' = "raised" /\ i' = i
             ELSE phase' = phase /\ i' = i + 1
    /\ UNCHANGED <<commands, entry, stream, result, asmfile>>
    /\ UNCHANGED cpuVars

\* return output.getvalue()
CodeReturn ==
    /\ phase = "emit"
    /\ i = Len(stream)
    /\ result' = [returned |-> TRUE, text |-> getvalue(output)]
    /\ phase' = IF entry = "main" THEN "write" ELSE "returned"
    /\ UNCHANGED <<commands, entry, stream, i, current_function, output, asmfile>>
    /\ UNCHANGED cpuVars

\* main(): asmfile.write(...), then the file is closed
MainWrite ==
    /\ phase = "write"
    /\ asmfile' = [exists |-> TRUE, text |-> Cat(asmfile.text, result.text)]
    /\ phase' = "returned"
    /\ UNCHANGED <<commands, entry, stream, i, current_function, output, result>>
    /\ UNCHANGED cpuVars

NextCode == Construct \/ MainParse \/ Start \/ CodeStep \/ CodeReturn \/ MainWrite

SpecCode == InitCode /\ [][NextCode]_vars

-----------------------------------------------------------------------------
(* Executions: a command sequence is translated, loaded and run *)


\* 16-bit words of both signs, as operands
RunWords == {0, 1, 4, 5, 32767, 32768, 65534, 65535}
\* values returned by the callee
RunValues == {0, 7, 32767}
\* the stack pointer when execution starts: at least two words are on the stack
RunSP == {StackBase + 6, StackBase + 7}
RunIndices == {0, 1}

\* registers of a frame in the stack region, THIS/THAT in the heap
LCL0 == StackBase + 2
ARG0 == StackBase
THIS0 == 8 * StackBase
THAT0 == THIS0 + 10
\* what the stack region holds above the stack top
Junk == Word \div 3

RunStackCommands ==
    {r.value : r \in {q \in {StackOperation(cls, seg, p, nfile) :
                                cls \in {"Push", "Pop"}, seg \in SegmentNames,
                                p \in RunIndices \cup {7, max_parameter_value}} :
                         /\ q.ok
                         /\ asm_code(q.value, 0, None).ok
                         /\ q.value.parameter \in RunIndices
                            \/ (q.value.segment = "temp" /\ q.value.parameter = 7)
                            \/ (q.value.segment = "constant")}}

RunArithmeticCommands == {ArithmeticCommand(cls).value : cls \in ArithmeticNames}

\* function f k on its own, or after another function
RunFunctionPrograms ==
    {<<Function(nf, k).value>> : k \in 0..MaxRunLocals}
    \cup {<<Function(ng, 0).value, Function(nf, k).value>> : k \in 0..MaxRunLocals}

\* the caller loops at label e after the call; the callee returns a constant
CallProgram(N, M, V) ==
    <<Call(nf, N).value,
      BranchingCommand("Label", ne).value,
      BranchingCommand("Goto", ne).value,
      Function(nf, M).value,
      StackOperation("Push", "constant", V, nfile).value,
      Return.value>>

RunCallPrograms ==
    {CallProgram(N, M, V) : N \in 0..MaxArgs, M \in 0..MaxRunLocals, V \in RunValues}

\* indices of a round trip: the first two, the last of temp, and the one that
\* makes local address the stack slot itself
RunRoundTripIndices == RunIndices \cup {4, 7}

\* push constant K; pop seg I; push seg I
RoundTripProgram(K, seg, I) ==
    <<StackOperation("Push", "constant", K, nfile).value,
      StackOperation("Pop", seg, I, nfile).value,
      StackOperation("Push", seg, I, nfile).value>>

\* the round trips through every writable segment at indices legal for it
RunRoundTripPrograms ==
    {cmds \in {RoundTripProgram(K, seg, I) :
                  K \in RunValues, seg \in SegmentNames \ {"constant"}, I \in RunRoundTripIndices} :
        asm_code(cmds[2], 0, None).ok}

\* if-goto L; push constant 7; label L, outside any function or inside function g
IfGotoProgram(inside) ==
    (IF inside THEN <<Function(ng, 0).value>> ELSE <<>>)
    \o <<BranchingCommand("IfGoto", nL).value,
          StackOperation("Push", "constant", 7, nfile).value,
          BranchingCommand("Label", nL).value>>

RunIfGotoPrograms == {IfGotoProgram(inside) : inside \in BOOLEAN}

\* the entry function of a bootstrapped program, looping at label e
BootProgram(M) ==
    <<Function(nSysInit, M).value,
      BranchingCommand("Label", ne).value,
      BranchingCommand("Goto", ne).value>>

RunBootPrograms == {BootProgram(M) : M \in 0..MaxRunLocals}

\* data memory with SP = S, the two topmost stack words x (below) and y (top)
InitialRam(S, x, y) ==
    [a \in {0, 1, 2, 3, 4, S - 2, S - 1} \cup {S + j : j \in 0..(MaxRunLocals + 6)} |->
        CASE a = 0 -> S
          [] a = 1 -> LCL0
          [] a = 2 -> ARG0
          [] a = 3 -> THIS0
          [] a = 4 -> THAT0
          [] a = S - 2 -> x
          [] a = S - 1 -> y
          [] OTHER -> Junk]

\* the commands a caller has constructed and the data memory, before
\* code() / code_with_init() is called
Staged(e, cmds, S, x, y) ==
    /\ commands = cmds
    /\ entry = e
    /\ stream = <<>>
    /\ phase = "load"
    /\ i = 0
    /\ current_function = None
    /\ output = <<>>
    /\ result = NoResult
    /\ asmfile = NoFile
    /\ rom = <<>>
    /\ pc = 0
    /\ A = 0
    /\ D = 0
    /\ ram = InitialRam(S, x, y)
    /\ ram0 = InitialRam(S, x, y)

\* the text is returned, assembled and loaded into program memory
LoadText(out, text) ==
    /\ stream' = StreamOf(entry, commands)
    /\ i' = Len(StreamOf(entry, commands))
    /\ current_function' =
          LET fs == {k \in 1..Len(commands) : commands[k].cls = "Function"} IN
          IF fs = {} THEN None ELSE commands[CHOOSE k \in fs : \A j \in fs : j <= k]
    /\ output' = out.value
    /\ result' = [returned |-> TRUE, text |-> text.value]
    /\ rom' = Assemble(text.value)
    /\ phase' = "run"
    /\ UNCHANGED <<commands, entry, asmfile, pc, A, D, ram, ram0>>

\* code()'s loop has run to its end over the stream
LoadOutput(out) == out.ok /\ LoadText(out, code_return(out))

\* code(commands) or code_with_init(commands) is called, and the text it
\* returns is assembled and loaded
Load ==
    /\ phase = "load"
    /\ LoadOutput(code_loop(StreamOf(entry, commands), 0, None, <<>>))

InitRun ==
    \/ \E c \in RunArithmeticCommands, S \in RunSP, x \in RunWords, y \in RunWords :
          Staged("code", <<c>>, S, x, y)
    \/ \E c \in RunStackCommands, S \in RunSP, y \in RunWords :
          Staged("code", <<c>>, S, 4, y)
    \/ \E cmds \in RunFunctionPrograms, S \in RunSP :
          Staged("code", cmds, S, 4, 5)
    \/ \E cmds \in RunCallPrograms, S \in RunSP :
          Staged("code", cmds, S, 4, 5)
    \/ \E cmds \in RunBootPrograms, S \in RunSP :
          Staged("code_with_init", cmds, S, 4, 5)
    \/ \E cmds \in RunRoundTripPrograms, S \in RunSP :
          Staged("code", cmds, S, 4, 5)
    \/ \E cmds \in RunIfGotoPrograms, S \in RunSP, y \in RunWords :
          Staged("code", cmds, S, 4, y)

NextRun == Load \/ AInstruction \/ CInstruction

SpecRun == InitRun /\ [][NextRun]_vars

-----------------------------------------------------------------------------
(* Properties of the translation (SpecCode) *)

HasPrefix(text, pre) == Len(text) >= Len(pre) /\ SubSeq(text, 1, Len(pre)) = pre

\* EQUAL<digits>, WRITE<digits> or CALL<digits>
IsInternalLabel(text) ==
    \E pre \in {nEQUAL, nWRITE, nCALL} :
        /\ HasPrefix(text, pre)
        /\ Len(text) > Len(pre)
        /\ \A k \in (Len(pre) + 1)..Len(text) : IsDigit(text[k])

\* the positions of a text that declare the label sym
DeclarationsOf(text, sym) == {q \in 1..Len(text) : text[q] = LabelDecl(sym)}

\* the internal labels the command at enumerate index n must declare
InternalLabelsAt(strm, n) ==
    CASE strm[n + 1].cls \in EqualityNames -> {nEQUAL \o Dec(n), nWRITE \o Dec(n)}
      [] strm[n + 1].cls \in {"Call", "Initialize"} -> {nCALL \o Dec(n)}
      [] OTHER -> {}

\* C4: in the text returned by code() / code_with_init(), the EQUAL<i>/WRITE<i>
\* labels of every comparison and the CALL<i> label of every call and of the
\* bootstrap are declared exactly once each, the labels of different commands are
\* different, and no other internal label is declared
C4_InternalLabelsUnique ==
    result.returned =>
        /\ \A n \in 0..(Len(stream) - 1) :
              \A sym \in InternalLabelsAt(stream, n) :
                  Cardinality(DeclarationsOf(result.text, sym)) = 1
        /\ \A n, m \in 0..(Len(stream) - 1) :
              n # m => InternalLabelsAt(stream, n) \cap InternalLabelsAt(stream, m) = {}
        /\ \A q \in 1..Len(result.text) :
              (result.text[q].k = "(" /\ IsInternalLabel(result.text[q].text))
                  => \E n \in 0..(Len(stream) - 1) :
                        result.text[q].text \in InternalLabelsAt(stream, n)

\* a bootstrapped program with ten or more commands, comparisons and calls among them
C4_Witness ==
    /\ result.returned
    /\ entry = "code_with_init"
    /\ Len(stream) > 10
    /\ \E n \in 1..Len(stream) : stream[n].cls = "Eq"
    /\ \E n \in 1..Len(stream) : stream[n].cls = "Call"

\* the constraints a Push/Pop index must meet: 0..32767
IndexOutOfRange(c) ==
    c.cls \in {"Push", "Pop"} /\ ~(0 <= c.parameter /\ c.parameter <= max_parameter_value)

\* a pop of constant, or a pointer / temp index beyond the segment
SegmentIllegal(c) ==
    /\ c.cls \in {"Push", "Pop"}
    /\ \/ c.cls = "Pop" /\ c.segment = "constant"
       \/ c.segment = "pointer" /\ c.parameter >= 2
       \/ c.segment = "temp" /\ c.parameter >= 8

LocalsOutOfRange(c) ==
    c.cls = "Function" /\ ~(0 <= c.num_locals /\ c.num_locals <= MAX_LOCALS)

HandedToEmitter == phase \in {"emit", "write", "returned", "raised"}

Offending(c) == ~asm_code(c, 0, None).ok

\* C7: when a command of the sequence fails, translation stops at the first
\* offending command, no later command is rendered, and no text is emitted:
\* nothing is returned and main() writes nothing to the file; text is returned or
\* written only when no command of the sequence fails
C7_FailFastNoPartialOutput ==
    /\ phase = "raised" =>
          /\ Offending(stream[i + 1])
          /\ \A k \in 1..i : ~Offending(stream[k])
          /\ Len(output) = i
          /\ ~result.returned
          /\ asmfile.text = EmptyText
          /\ ~ENABLED NextCode
    /\ (HandedToEmitter /\ \E k \in 1..Len(stream) : Offending(stream[k])) =>
          /\ ~result.returned
          /\ asmfile.text = EmptyText
          /\ Len(output) < CHOOSE k \in 1..Len(stream) :
                              Offending(stream[k]) /\ \A j \in 1..(k - 1) : ~Offending(stream[j])

\* main() fails at a command that follows a valid one
C7_Witness ==
    /\ phase = "raised"
    /\ entry = "main"
    /\ i >= 2
    /\ asmfile.exists

\* the function a command of the stream is inside: the latest Function command
\* at or before position p, or None
EnclosingFunction(strm, p) ==
    LET fs == {k \in 1..p : strm[k].cls = "Function"} IN
    IF fs = {} THEN None ELSE strm[CHOOSE k \in fs : \A j \in fs : j <= k]

\* the symbol the rendered block of the command at position p declares or jumps to
RenderedSymbol(p) ==
    CASE stream[p].cls = "Label" -> output[p][2].text
      [] stream[p].cls = "Goto" -> output[p][2].text
      [] stream[p].cls = "IfGoto" -> output[p][5].text

InFunction(p) == EnclosingFunction(stream, p) # None

\* C8: labels of identical text declared in two different functions are rendered
\* as different symbols function-name$label-name, and a goto / if-goto is rendered
\* with the symbol of the label of its own function, never with the other's
C8_SameLabelTwoFunctions ==
    \A p, q \in 1..Len(output) :
        (/\ stream[p].cls = "Label"
         /\ stream[q].cls \in BranchingNames
         /\ stream[p].name = stream[q].name
         /\ InFunction(p) /\ InFunction(q)) =>
            /\ output[p][2] = LabelDecl(EnclosingFunction(stream, p).name \o <<"$">> \o stream[p].name)
            /\ output[q][IF stream[q].cls = "IfGoto" THEN 5 ELSE 2].k
                  = (IF stream[q].cls = "Label" THEN "(" ELSE "@")
            /\ (EnclosingFunction(stream, p).name = EnclosingFunction(stream, q).name)
                  <=> (RenderedSymbol(p) = RenderedSymbol(q))

\* two functions each declare label L, and both declarations have been rendered
C8_Witness ==
    /\ result.returned
    /\ \E p, q \in 1..Len(output) :
          /\ stream[p].cls = "Label" /\ stream[q].cls = "Label"
          /\ stream[p].name = stream[q].name
          /\ InFunction(p) /\ InFunction(q)
          /\ EnclosingFunction(stream, p).name # EnclosingFunction(stream, q).name
          /\ RenderedSymbol(p) # RenderedSymbol(q)

-----------------------------------------------------------------------------
(* Properties of the emitted assembly when it is executed (SpecRun) *)

RAM(a) == Read(ram, a)
RAM0(a) == Read(ram0, a)
\* the stack pointer when execution started
S0 == RAM0(0)

Halted == phase = "run" /\ pc = Len(rom)

IsCallProgram ==
    phase = "run" /\ entry = "code" /\ Len(commands) = 6 /\ commands[1].cls = "Call"
IsBootProgram == phase = "run" /\ entry = "code_with_init"
IsFunctionProgram ==
    phase = "run" /\ entry = "code" /\ \A k \in 1..Len(commands) : commands[k].cls = "Function"
IsRoundTripProgram ==
    phase = "run" /\ entry = "code" /\ Len(commands) = 3 /\ commands[2].cls = "Pop"
IsIfGotoProgram ==
    phase = "run" /\ entry = "code" /\ \E k \in 1..Len(commands) : commands[k].cls = "IfGoto"
IsDataProgram ==
    /\ phase = "run" /\ entry = "code" /\ Len(commands) = 1
    /\ commands[1].cls \in ArithmeticNames \cup {"Push", "Pop"}

\* the address of the return label CALL<n> in the emitted text
ReturnAddress(n) == LabelAddress(result.text, nCALL \o Dec(n))
\* the address of the entry label of function name
EntryAddress(name) == LabelAddress(result.text, Function_name_to_label(name))

\* C1: a call of `function f M; push constant V; return` with N arguments resumes
\* at the call site's return label with V in the top-of-stack slot and LCL, ARG,
\* THIS, THAT as they were before the call
C1_CallReturnRestoresCaller ==
    IsCallProgram =>
        /\ pc < Len(rom)
        /\ pc = Len(rom) - 1 => A % HalfWord = ReturnAddress(0)
        /\ pc = ReturnAddress(0) =>
              /\ RAM(RAM(0) - 1) = commands[5].parameter
              /\ \A r \in 1..4 : RAM(r) = RAM0(r)

\* back at the return label of a call without arguments of a function with locals
C1_Witness ==
    /\ IsCallProgram
    /\ commands[1].num_arguments = 0
    /\ commands[4].num_locals >= 1
    /\ commands[5].parameter = max_parameter_value
    /\ pc = ReturnAddress(0)

\* C2 as stated: back at the return label, SP is exactly N less than before the call
C2_StackShorterByN ==
    (IsCallProgram /\ pc = ReturnAddress(0)) => RAM(0) = S0 - commands[1].num_arguments

\* C2 amended: back at the return label, SP is exactly N - 1 less than before the
\* call: the N arguments are replaced by the one return value
C2_StackShorterByNMinusOne ==
    (IsCallProgram /\ pc = ReturnAddress(0)) => RAM(0) = S0 - commands[1].num_arguments + 1

\* back at the return label of a call with arguments
C2_Witness ==
    /\ IsCallProgram
    /\ commands[1].num_arguments >= 2
    /\ pc = ReturnAddress(0)

\* the signed comparison a comparison command stands for
Compares(cls, x, y) ==
    CASE cls = "Eq" -> Signed(x) = Signed(y)
      [] cls = "Gt" -> Signed(x) > Signed(y)
      [] cls = "Lt" -> Signed(x) < Signed(y)

\* C3: eq, gt, lt replace the operands x (second from top) and y (top) by -1
\* exactly when x = y, x > y, x < y as signed 16-bit numbers, and by 0 otherwise
C3_ComparisonCorrect ==
    (IsDataProgram /\ commands[1].cls \in EqualityNames /\ Halted) =>
        /\ RAM(0) = S0 - 1
        /\ RAM(S0 - 2) = IF Compares(commands[1].cls, RAM0(S0 - 2), RAM0(S0 - 1))
                         THEN Word - 1 ELSE 0

\* C3 where the difference of the operands fits in 16 bits
C3_ComparisonCorrectNoOverflow ==
    (/\ IsDataProgram /\ commands[1].cls \in EqualityNames /\ Halted
     /\ Signed(RAM0(S0 - 1)) - Signed(RAM0(S0 - 2)) < HalfWord
     /\ Signed(RAM0(S0 - 1)) - Signed(RAM0(S0 - 2)) >= 0 - HalfWord) =>
        /\ RAM(0) = S0 - 1
        /\ RAM(S0 - 2) = IF Compares(commands[1].cls, RAM0(S0 - 2), RAM0(S0 - 1))
                         THEN Word - 1 ELSE 0

\* the stack pointer a call site starts from, its argument count and its callee
SiteSP == IF IsBootProgram THEN StackBase ELSE S0
SiteArgs == IF IsBootProgram THEN 0 ELSE commands[1].num_arguments
SiteCallee == IF IsBootProgram THEN nSysInit ELSE commands[1].name
Written(a) == RAM(a) # RAM0(a)

\* C5: `call f N` from stack pointer S writes, in order, the return address at S
\* and LCL, ARG, THIS, THAT at S+1..S+4, sets ARG = S - N and LCL = SP = S + 5,
\* jumps to f's entry label and declares the return label right after the jump;
\* the bootstrap sets SP to 256 and then is `call Sys.init 0`
C5_CallFrameLayout ==
    (IsCallProgram \/ IsBootProgram) =>
        LET ret == ReturnAddress(0)
            fentry == EntryAddress(SiteCallee)
        IN  /\ rom[ret - 1] = [k |-> "A", value |-> fentry]
            /\ rom[ret] = [k |-> "C", dest |-> "", comp |-> "0", jump |-> "JMP"]
            /\ pc < ret =>
                  /\ \A j \in 1..4 : Written(SiteSP + j) => Written(SiteSP + j - 1)
                  /\ (Written(1) \/ Written(2)) => Written(SiteSP + 4)
                  /\ Written(1) => RAM(2) = SiteSP - SiteArgs
            /\ (pc = fentry /\ A = fentry) =>
                  /\ RAM(SiteSP) = ret
                  /\ \A j \in 1..4 : RAM(SiteSP + j) = RAM0(j)
                  /\ RAM(2) = SiteSP - SiteArgs
                  /\ RAM(1) = SiteSP + 5
                  /\ RAM(0) = SiteSP + 5
            /\ IsBootProgram =>
                  /\ pc = 4 => RAM(0) = StackBase
                  /\ SubSeq(output[1], 6, Len(output[1])) = asm(Call(nSysInit, 0).value, 0, None).value

\* the entry function of a bootstrapped program starts
C5_Witness ==
    /\ IsBootProgram
    /\ pc = EntryAddress(nSysInit)
    /\ A = EntryAddress(nSysInit)
    /\ RAM(0) = StackBase + 5
    /\ RAM(1) = StackBase + 5
    /\ RAM(2) = StackBase

\* a call with arguments has jumped to its callee
C5_WitnessCall ==
    /\ IsCallProgram
    /\ commands[1].num_arguments >= 1
    /\ pc = EntryAddress(nf)

\* the local count of the last function of a function program
LastLocals == commands[Len(commands)].num_locals

\* C9: `function f k` from stack pointer S ends with SP = S + k and
\* memory[S..S+k-1] all zero, changes no other memory word (so none of LCL, ARG,
\* THIS, THAT), and declares the entry label F<name of f> whatever the enclosing
\* function and the position of the command
C9_FunctionPrologue ==
    (IsFunctionProgram /\ \A k \in 1..(Len(commands) - 1) : commands[k].num_locals = 0) =>
        /\ \A a \in ((DOMAIN ram) \cup (DOMAIN ram0)) \ ({0} \cup (S0..(S0 + LastLocals - 1))) :
              RAM(a) = RAM0(a)
        /\ Halted =>
              /\ RAM(0) = S0 + LastLocals
              /\ \A a \in S0..(S0 + LastLocals - 1) : RAM(a) = 0
        /\ \A p \in 1..Len(output) :
              /\ output[p][2] = LabelDecl(<<"F">> \o commands[p].name)
              /\ \A q \in 1..Len(output[p]) : output[p][q].k = "(" => q = 2

\* a function with two or more locals, inside another function, has run
C9_Witness ==
    /\ IsFunctionProgram
    /\ Len(commands) = 2
    /\ LastLocals >= 2
    /\ Halted

Binary == {"Add", "Sub", "And", "Or", "Eq", "Gt", "Lt"}
Unary == {"Neg", "Not"}

\* the net stack effect a data command must have
NetEffect(c) ==
    CASE c.cls \in Binary -> 0 - 1
      [] c.cls \in Unary -> 0
      [] c.cls = "Push" -> 1
      [] c.cls = "Pop" -> 0 - 1

\* the number of stack words a data command consumes
Consumed(c) ==
    CASE c.cls \in Binary -> 2
      [] c.cls \in Unary -> 1
      [] c.cls = "Push" -> 0
      [] c.cls = "Pop" -> 1

\* the stack words below the operands of the command
BelowOperands == StackBase..(S0 - Consumed(commands[1]) - 1)

\* the memory word a Pop stores into
PopTarget(c) ==
    LET seg == SEGMENTS[c.segment] IN
    CASE seg.class = "Segment" -> RAM0(PredefinedAddress(seg.symbol)) + c.parameter
      [] seg.class = "FixedSegment" -> seg.base + c.parameter
      [] seg.class = "StaticSegment" ->
            LabelAddress(result.text, StaticSymbol(c.filename, c.parameter))

\* C10 as stated: SP changes by -1 for a binary command, 0 for a unary one, +1
\* for a Push and -1 for a Pop, and no command writes a stack word below the
\* operands it consumes
C10_NetStackEffect ==
    IsDataProgram =>
        /\ Halted => RAM(0) = S0 + NetEffect(commands[1])
        /\ \A a \in BelowOperands : RAM(a) = RAM0(a)

\* C10 amended: the same, except that a Pop writes the word it stores into, which
\* for local and argument lies in the stack region below the popped operand
C10_NetStackEffectButPopTarget ==
    IsDataProgram =>
        /\ Halted => RAM(0) = S0 + NetEffect(commands[1])
        /\ \A a \in BelowOperands :
              (commands[1].cls = "Pop" /\ a = PopTarget(commands[1])) \/ RAM(a) = RAM0(a)
        /\ (Halted /\ commands[1].cls = "Pop") =>
              RAM(PopTarget(commands[1])) = RAM0(S0 - 1)

\* a pop has stored the popped word into a local in the stack region
C10_Witness ==
    /\ IsDataProgram
    /\ Halted
    /\ commands[1].cls = "Pop"
    /\ commands[1].segment = "local"
    /\ PopTarget(commands[1]) \in BelowOperands
    /\ Written(PopTarget(commands[1]))

\* C11: push constant K; pop seg I; push seg I, for a writable segment at a
\* legal index, ends with K on top of the stack and the stack one deeper than
\* at the start
C11_PushPopRoundTrip ==
    (IsRoundTripProgram /\ Halted) =>
        /\ RAM(0) = S0 + 1
        /\ RAM(RAM(0) - 1) = commands[1].parameter

\* the round trip through local at the index that addresses the stack slot K
\* was pushed into has finished
C11_Witness ==
    /\ IsRoundTripProgram
    /\ Halted
    /\ commands[2].segment = "local"
    /\ RAM0(1) + commands[2].parameter = S0
    /\ commands[1].parameter = max_parameter_value
    /\ RAM(S0) = max_parameter_value

\* the position of the if-goto in the program
IfGotoAt == CHOOSE k \in 1..Len(commands) : commands[k].cls = "IfGoto"

\* the address of the first instruction after the blocks of the first k commands
BlockEnd(k) == Len(Assemble(CatAll(SubSeq(output, 1, k))))

\* the word on top of the stack when execution started
Top0 == RAM0(S0 - 1)

\* C14: if-goto L takes one word off the stack whether or not it branches, goes
\* to the qualified label of L when that word is not zero (the command after
\* it, a push, is skipped) and goes on with the next command when it is zero
C14_IfGotoSemantics ==
    IsIfGotoProgram =>
        /\ pc = BlockEnd(IfGotoAt) => (Top0 = 0 /\ RAM(0) = S0 - 1)
        /\ (Halted /\ Top0 # 0) =>
              /\ pc = LabelAddress(result.text,
                                   name_to_label(EnclosingFunction(commands, IfGotoAt), nL))
              /\ RAM(0) = S0 - 1
              /\ RAM(S0 - 1) = Top0
        /\ (Halted /\ Top0 = 0) =>
              /\ RAM(0) = S0
              /\ RAM(S0 - 1) = 7

\* inside function g, if-goto has branched on a word with the sign bit set
C14_Witness ==
    /\ IsIfGotoProgram
    /\ Halted
    /\ commands[1].cls = "Function"
    /\ Top0 = HalfWord
    /\ RAM(0) = S0 - 1

\* outside any function, if-goto has fallen through on the word zero
C14_WitnessFallThrough ==
    /\ IsIfGotoProgram
    /\ pc = BlockEnd(IfGotoAt)
    /\ Len(commands) = 3
    /\ Top0 = 0

-----------------------------------------------------------------------------
(* Properties of the emitter's text and of its function context (SpecCode) *)

\* C12: the returned text is one block per command, in order, each beginning
\* with the one-line comment of its command, and holds no empty line
C12_OutputFormat ==
    result.returned =>
        /\ Len(output) = Len(stream)
        /\ \A k \in 1..Len(output) : output[k][1] = Comment(str(stream[k]))
        /\ result.text = CatAll(output)
        /\ \A q \in 1..Len(SplitLines(result.text)) : result.text[q] # Blank

\* the scope a position of the stream is in: the no-function scope, or the
\* name of the most recent Function command
Scope(strm, p) ==
    IF EnclosingFunction(strm, p) = None THEN <<"no function">>
    ELSE <<"function", EnclosingFunction(strm, p).name>>

\* the name a scope qualifies with
ScopeName(strm, p) ==
    IF EnclosingFunction(strm, p) = None THEN nNone ELSE EnclosingFunction(strm, p).name

\* C13: the function context after i commands is the most recent Function
\* command among them, or None when there is none, so it changes at Function
\* commands only; every label, goto and if-goto is rendered with the name of
\* the nearest preceding Function command, and the context of a Function
\* command is the command itself
C13_CurrentFunctionTracking ==
    HandedToEmitter =>
        /\ current_function = EnclosingFunction(stream, i)
        /\ \A k \in 1..Len(output) :
              /\ stream[k].cls \in BranchingNames =>
                    RenderedSymbol(k) = ScopeName(stream, k) \o <<"$">> \o stream[k].name
              /\ stream[k].cls = "Function" => EnclosingFunction(stream, k) = stream[k]

\* a label that follows a function and then a call or a return has been
\* rendered with the function's name
C13_Witness ==
    /\ result.returned
    /\ \E p, q, r \in 1..Len(output) :
          /\ p < q /\ q < r
          /\ stream[p].cls = "Function"
          /\ stream[q].cls \in {"Call", "Return"}
          /\ stream[r].cls = "Label"
          /\ current_function = stream[p]
          /\ RenderedSymbol(r) = stream[p].name \o <<"$">> \o stream[r].name

\* C15: two label declarations that differ in scope or in label text are never
\* rendered as the same symbol
C15_QualificationInjective ==
    \A p, q \in 1..Len(output) :
        (/\ stream[p].cls = "Label" /\ stream[q].cls = "Label"
         /\ \/ Scope(stream, p) # Scope(stream, q)
            \/ stream[p].name # stream[q].name) =>
            RenderedSymbol(p) # RenderedSymbol(q)

====
